---- MODULE Spec2Model ----
(***************************************************************************)
(* Purge handler for soft-deleted ciphers (src/handlers/purge.rs).         *)
(*                                                                         *)
(* The module models get_purge_days and purge_deleted_ciphers together     *)
(* with the `ciphers` table they read and delete from, the wall clock, and *)
(* overlapping invocations of the handler.  Text values (the environment   *)
(* variable, the cutoff timestamp, the stored deleted_at values) are       *)
(* sequences of one-character strings, compared as SQLite compares TEXT    *)
(* (byte by byte).  An instant is <<day, ms>>: days since 1970-01-01 and   *)
(* milliseconds within the day.                                            *)
(***************************************************************************)
EXTENDS Integers, Sequences, FiniteSets, TLC

(***************************************************************************)
(* Bounds of the model.                                                    *)
(***************************************************************************)
NumInvocations == 2
NumCiphers == 1
MaxTicks == 1
MaxEnvLen == 2

(***************************************************************************)
(* Characters and text.                                                    *)
(***************************************************************************)
Digits == <<"0", "1", "2", "3", "4", "5", "6", "7", "8", "9">>

IsDigit(c) == \E i \in 1..10 : Digits[i] = c

DigitVal(c) == (CHOOSE i \in 1..10 : Digits[i] = c) - 1

DigitChar(n) == Digits[n + 1]

\* The byte value of a character (ASCII), as memcmp and str::cmp see it.
Byte(c) ==
    IF IsDigit(c) THEN 48 + DigitVal(c)
    ELSE CASE c = " " -> 32
           [] c = "+" -> 43
           [] c = "-" -> 45
           [] c = "." -> 46
           [] c = ":" -> 58
           [] c = "T" -> 84
           [] c = "Z" -> 90
           [] c = "a" -> 97
           [] c = "b" -> 98
           [] c = "c" -> 99

\* s < t for TEXT values under the BINARY collation: the first differing byte
\* decides, and a proper prefix sorts first.
RECURSIVE TextLess(_, _)
TextLess(s, t) ==
    IF t = <<>> THEN FALSE
    ELSE IF s = <<>> THEN TRUE
    ELSE IF Byte(Head(s)) # Byte(Head(t)) THEN Byte(Head(s)) < Byte(Head(t))
    ELSE TextLess(Tail(s), Tail(t))

(***************************************************************************)
(* str::parse::<i64>: an optional sign, then one or more decimal digits;   *)
(* anything else, or a value outside the i64 range, is an error.           *)
(***************************************************************************)
ParseErr == <<"Err">>

Parsed(n) == <<"Ok", n>>

I64MaxDigits == <<"9","2","2","3","3","7","2","0","3","6","8","5","4","7","7","5","8","0","7">>
I64MinDigits == <<"9","2","2","3","3","7","2","0","3","6","8","5","4","7","7","5","8","0","8">>

RECURSIVE StripZeros(_)
StripZeros(ds) ==
    IF Len(ds) > 1 /\ Head(ds) = "0" THEN StripZeros(Tail(ds)) ELSE ds

\* Whether the magnitude written by the digits ds fits under the limit lim
\* (both without leading zeros).
FitsI64(ds, lim) ==
    \/ Len(ds) < Len(lim)
    \/ Len(ds) = Len(lim) /\ ~TextLess(lim, ds)

RECURSIVE DigitsValue(_, _)
DigitsValue(ds, acc) ==
    IF ds = <<>> THEN acc
    ELSE DigitsValue(Tail(ds), acc * 10 + DigitVal(Head(ds)))

ParseI64(s) ==
    LET neg == s # <<>> /\ Head(s) = "-"
        signed == s # <<>> /\ Head(s) \in {"+", "-"}
        ds == IF signed THEN Tail(s) ELSE s
        mag == StripZeros(ds)
    IN IF ds = <<>> THEN ParseErr
       ELSE IF \E i \in 1..Len(ds) : ~IsDigit(ds[i]) THEN ParseErr
       ELSE IF ~FitsI64(mag, IF neg THEN I64MinDigits ELSE I64MaxDigits) THEN ParseErr
       ELSE IF neg THEN Parsed(0 - DigitsValue(mag, 0))
       ELSE Parsed(DigitsValue(mag, 0))

(***************************************************************************)
(* Configuration (lines 10-19).                                            *)
(***************************************************************************)
DEFAULT_PURGE_DAYS == 30

\* env.var("TRASH_AUTO_DELETE_DAYS") fails when the variable is not bound.
Missing == <<"Missing">>

\* A fallback that disables the purge instead of defaulting it.
get_purge_days_or_zero(e) ==
    IF e = Missing THEN 0
    ELSE IF ParseI64(e) = ParseErr THEN 0
    ELSE ParseI64(e)[2]

get_purge_days(e) ==
    IF e = Missing THEN DEFAULT_PURGE_DAYS
    ELSE IF ParseI64(e) = ParseErr THEN DEFAULT_PURGE_DAYS
    ELSE ParseI64(e)[2]

\* A check that lets zero through.
PurgeDisabledBelowZero(days) == days < 0

\* purge_days <= 0 disables the purge.
PurgeDisabled(days) == days <= 0

(***************************************************************************)
(* chrono: the proleptic Gregorian calendar, DateTime<Utc> - Duration and  *)
(* DateTime::format("%Y-%m-%dT%H:%M:%S%.3fZ").                             *)
(***************************************************************************)
MsPerDay == 86400000

\* Days since 1970-01-01 of the civil date y-m-d.
DaysFromCivil(y, m, d) ==
    LET yy == IF m <= 2 THEN y - 1 ELSE y
        era == yy \div 400
        yoe == yy - era * 400
        mp == IF m > 2 THEN m - 3 ELSE m + 9
        doy == (153 * mp + 2) \div 5 + d - 1
        doe == yoe * 365 + yoe \div 4 - yoe \div 100 + doy
    IN era * 146097 + doe - 719468

\* The civil date <<y, m, d>> of a day number.
CivilFromDays(z) ==
    LET zz == z + 719468
        era == zz \div 146097
        doe == zz - era * 146097
        yoe == (doe - doe \div 1460 + doe \div 36524 - doe \div 146096) \div 365
        doy == doe - (365 * yoe + yoe \div 4 - yoe \div 100)
        mp == (5 * doy + 2) \div 153
        d == doy - (153 * mp + 2) \div 5 + 1
        m == IF mp < 10 THEN mp + 3 ELSE mp - 9
        y == yoe + era * 400 + (IF m <= 2 THEN 1 ELSE 0)
    IN <<y, m, d>>

\* The first year a DateTime can hold (NaiveDate::MIN is January 1 of it).
MIN_YEAR == -262143

MinDay == DaysFromCivil(MIN_YEAR, 1, 1)

Panic == <<"Panic">>

\* now - Duration::days(days): the time of day is kept and the date moves back;
\* the subtraction panics when the result leaves the range of DateTime.
\* (Duration::days itself panics above i64::MAX milliseconds, about 1.07e11
\* days; every such value also leaves the range of DateTime.)
SubDays(t, days) ==
    IF t[1] - days < MinDay THEN Panic ELSE <<t[1] - days, t[2]>>

\* n written with at least w digits, zero-padded.
RECURSIVE Pad(_, _)
Pad(n, w) ==
    IF n < 10 /\ w <= 1 THEN <<DigitChar(n)>>
    ELSE Pad(n \div 10, w - 1) \o <<DigitChar(n % 10)>>

\* %Y: four digits for the years 0..9999, otherwise a sign and at least four
\* digits ("-0166", "+10000").
FormatYear(y) ==
    IF y >= 0 /\ y <= 9999 THEN Pad(y, 4)
    ELSE IF y < 0 THEN <<"-">> \o Pad(0 - y, 4)
    ELSE <<"+">> \o Pad(y, 4)

\* A format without the milliseconds: "%Y-%m-%dT%H:%M:%SZ".
FormatSeconds(t) ==
    LET c == CivilFromDays(t[1])
        ms == t[2]
    IN FormatYear(c[1]) \o <<"-">> \o Pad(c[2], 2) \o <<"-">> \o Pad(c[3], 2)
       \o <<"T">> \o Pad(ms \div 3600000, 2)
       \o <<":">> \o Pad((ms \div 60000) % 60, 2)
       \o <<":">> \o Pad((ms \div 1000) % 60, 2) \o <<"Z">>

\* cutoff.format("%Y-%m-%dT%H:%M:%S%.3fZ").to_string()
Format(t) ==
    LET c == CivilFromDays(t[1])
        ms == t[2]
    IN FormatYear(c[1]) \o <<"-">> \o Pad(c[2], 2) \o <<"-">> \o Pad(c[3], 2)
       \o <<"T">> \o Pad(ms \div 3600000, 2)
       \o <<":">> \o Pad((ms \div 60000) % 60, 2)
       \o <<":">> \o Pad((ms \div 1000) % 60, 2)
       \o <<".">> \o Pad(ms % 1000, 3) \o <<"Z">>

(***************************************************************************)
(* The store: table `ciphers`, one row per id with a nullable TEXT column  *)
(* deleted_at.  Absent marks an id that has no row.                        *)
(***************************************************************************)
NULL == <<"NULL">>
Absent == <<"Absent">>

Ids == 1..NumCiphers
Invs == 1..NumInvocations

\* How the writers of the table store an instant in deleted_at:
\* YYYY-MM-DDTHH:MM:SS.sssZ, UTC.
StoredFormat(t) ==
    LET c == CivilFromDays(t[1])
        hh == t[2] \div 3600000
        mm == (t[2] % 3600000) \div 60000
        ss == (t[2] % 60000) \div 1000
        sss == t[2] % 1000
    IN Pad(c[1], 4) \o <<"-">> \o Pad(c[2], 2) \o <<"-">> \o Pad(c[3], 2) \o <<"T">>
       \o Pad(hh, 2) \o <<":">> \o Pad(mm, 2) \o <<":">> \o Pad(ss, 2)
       \o <<".">> \o Pad(sss, 3) \o <<"Z">>

\* A predicate that also selects the rows deleted exactly at the cutoff.
MatchesOrEqual(deleted_at, cutoff_str) ==
    deleted_at # NULL /\ ~TextLess(cutoff_str, deleted_at)

\* WHERE deleted_at IS NOT NULL AND deleted_at < ?1
Matches(deleted_at, cutoff_str) ==
    deleted_at # NULL /\ TextLess(deleted_at, cutoff_str)

\* The ids of the rows of table t the predicate selects.
Selected(t, cutoff_str) ==
    {i \in Ids : t[i] # Absent /\ Matches(t[i], cutoff_str)}

\* .first::<CountResult>(None): Some(row) or None.
NoRow == <<"None">>

Row(n) == <<"Some", n>>

\* count_result.map(|r| r.count).unwrap_or(0)
CountOf(count_result) == IF count_result = NoRow THEN 0 ELSE count_result[2]

\* A delete issued whatever the count.
DeleteAlways(n) == n >= 0

\* A delete skipped for a single row.
DeleteAboveOne(n) == n > 1

\* if count > 0 { DELETE ... }
DeleteIssued(n) == n > 0

\* What an invocation returns: Ok(count), an error, or nothing (it panicked).
Ok(n) == <<"Ok", n>>
Err == <<"Err">>
Panicked == <<"Panic">>
Unset == <<"Unset">>

IsOk(r) == r[1] = "Ok"

(***************************************************************************)
(* The clock and the inputs.                                               *)
(***************************************************************************)
\* The clock at the start, 2024-01-15T10:30:00.000Z.  Utc::now() has the
\* millisecond resolution of the host's clock.
Now0 == <<DaysFromCivil(2024, 1, 15), 37800000>>

\* The instant one millisecond after t.
Advance(t) ==
    IF t[2] + 1 >= MsPerDay THEN <<t[1] + 1, 0>> ELSE <<t[1], t[2] + 1>>

\* How many days before Now0 the rows soft-deleted at the start were deleted.
InitialAges == {45, 30, 10}

InitialRows == {NULL} \cup {StoredFormat(<<Now0[1] - a, Now0[2]>>) : a \in InitialAges}

\* The tables at the start, up to the naming of the rows: the soft-deleted
\* rows come first, oldest first, and the active rows follow.
InitialTables ==
    {t \in [Ids -> InitialRows] :
        \A i, j \in Ids : i < j =>
            \/ t[j] = NULL
            \/ t[i] # NULL /\ ~TextLess(t[j], t[i])}

\* Values of TRASH_AUTO_DELETE_DAYS the purge runs under.
EnvValues ==
    { <<"3", "0">>,
      <<"0">>,
      <<"-", "5">>,
      <<"8", "0", "0", "0", "0", "0">>,
      <<"1", "0", "0", "0", "0", "0", "0", "0", "0">> }

\* Values of TRASH_AUTO_DELETE_DAYS the configuration is read under: no
\* value, every text of up to MaxEnvLen characters, and some longer ones.
EnvChars == {"+", "-", "0", "1", "3", "a", " "}

TooBig == <<"9","9","9","9","9","9","9","9","9","9","9","9","9","9","9","9","9","9","9","9">>

ConfigValues ==
    {Missing, TooBig} \cup EnvValues
    \cup UNION {[1..n -> EnvChars] : n \in 0..MaxEnvLen}

VARIABLES
    env,          \* TRASH_AUTO_DELETE_DAYS: Missing or its text
    now,          \* Utc::now()
    ticks,        \* how often the clock has advanced
    ciphers,      \* the table: id -> Absent, NULL or the deleted_at text
    pc,           \* per invocation: "idle", "count", "delete", "done"
    purge_days,   \* per invocation: the local purge_days
    cutoff,       \* per invocation: the local cutoff (an instant)
    cutoff_str,   \* per invocation: the local cutoff_str
    count_result, \* per invocation: the local count_result
    count,        \* per invocation: the local count
    result,       \* per invocation: what the invocation returned
    failed,       \* per invocation: the request that failed ("": none)
    requests,     \* per invocation: the requests made to the store, in order
    removed,      \* per invocation: the rows <<id, deleted_at>> its DELETE removed
    atStart,      \* per invocation: the rows the predicate selected when it started
    lastDone,     \* the invocation that returned last (0: none has)
    softSince,    \* whether a row was soft-deleted since an invocation last returned
    pred          \* per invocation: the invocation it directly follows (0: none)

vars == <<env, now, ticks, ciphers, pc, purge_days, cutoff, cutoff_str, count_result,
          count, result, failed, requests, removed, atStart, lastDone, softSince, pred>>

locals == <<purge_days, cutoff, cutoff_str, count_result, count>>

InitWith(values, tables) ==
    /\ env \in values
    /\ now = Now0
    /\ ticks = 0
    /\ ciphers \in tables
    /\ pc = [p \in Invs |-> "idle"]
    /\ purge_days = [p \in Invs |-> 0]
    /\ cutoff = [p \in Invs |-> Unset]
    /\ cutoff_str = [p \in Invs |-> <<>>]
    /\ count_result = [p \in Invs |-> Unset]
    /\ count = [p \in Invs |-> 0]
    /\ result = [p \in Invs |-> Unset]
    /\ failed = [p \in Invs |-> ""]
    /\ requests = [p \in Invs |-> <<>>]
    /\ removed = [p \in Invs |-> {}]
    /\ atStart = [p \in Invs |-> {}]
    /\ lastDone = 0
    /\ softSince = FALSE
    /\ pred = [p \in Invs |-> 0]

Init == InitWith(EnvValues, InitialTables)

Running(q) == pc[q] \in {"count", "delete"}

\* Invocation p starts: it directly follows the invocation that returned last
\* when no other invocation is running and no row was soft-deleted since; an
\* invocation that starts meanwhile overlaps the running ones.
Starts(p) ==
    pred' = [q \in Invs |->
               IF q = p
               THEN IF softSince \/ \E r \in Invs : Running(r) THEN 0 ELSE lastDone
               ELSE IF Running(q) THEN 0 ELSE pred[q]]

\* The invocation p returns r.
Finish(p, r) ==
    /\ pc' = [pc EXCEPT ![p] = "done"]
    /\ result' = [result EXCEPT ![p] = r]
    /\ lastDone' = p
    /\ softSince' = FALSE

\* The invocation p sends the request req to the store.
Request(p, req) == requests' = [requests EXCEPT ![p] = Append(@, req)]

\* The request req of invocation p fails: `?` returns the error.
Fails(p, req) ==
    /\ Request(p, req)
    /\ failed' = [failed EXCEPT ![p] = req]
    /\ Finish(p, Err)

(***************************************************************************)
(* purge_deleted_ciphers, lines 29-78.  An invocation runs from its start  *)
(* to its first request to the store without interruption; the store       *)
(* serves each statement atomically.                                       *)
(***************************************************************************)
\* Lines 30-36: the purge is disabled.
Disabled(p) ==
    /\ pc[p] = "idle"
    /\ PurgeDisabled(get_purge_days(env))
    /\ purge_days' = [purge_days EXCEPT ![p] = get_purge_days(env)]
    /\ Starts(p)
    /\ Finish(p, Ok(0))
    /\ UNCHANGED <<env, now, ticks, ciphers, cutoff, cutoff_str, count_result, count,
                   failed, requests, removed, atStart>>

\* Line 38: env.d1("vault1") fails.
D1Fail(p) ==
    /\ pc[p] = "idle"
    /\ ~PurgeDisabled(get_purge_days(env))
    /\ purge_days' = [purge_days EXCEPT ![p] = get_purge_days(env)]
    /\ Starts(p)
    /\ Fails(p, "d1")
    /\ UNCHANGED <<env, now, ticks, ciphers, cutoff, cutoff_str, count_result, count,
                   removed, atStart>>

\* Lines 38-42: the handle is acquired and the subtraction panics.
CutoffPanic(p) ==
    /\ pc[p] = "idle"
    /\ ~PurgeDisabled(get_purge_days(env))
    /\ SubDays(now, get_purge_days(env)) = Panic
    /\ purge_days' = [purge_days EXCEPT ![p] = get_purge_days(env)]
    /\ Starts(p)
    /\ Request(p, "d1")
    /\ Finish(p, Panicked)
    /\ UNCHANGED <<env, now, ticks, ciphers, cutoff, cutoff_str, count_result, count,
                   failed, removed, atStart>>

\* Lines 30-49: the handle is acquired and the cutoff computed and formatted.
Begin(p) ==
    /\ pc[p] = "idle"
    /\ ~PurgeDisabled(get_purge_days(env))
    /\ SubDays(now, get_purge_days(env)) # Panic
    /\ purge_days' = [purge_days EXCEPT ![p] = get_purge_days(env)]
    /\ cutoff' = [cutoff EXCEPT ![p] = SubDays(now, get_purge_days(env))]
    /\ cutoff_str' = [cutoff_str EXCEPT ![p] = Format(SubDays(now, get_purge_days(env)))]
    /\ atStart' = [atStart EXCEPT ![p] =
                     Selected(ciphers, Format(SubDays(now, get_purge_days(env))))]
    /\ Starts(p)
    /\ Request(p, "d1")
    /\ pc' = [pc EXCEPT ![p] = "count"]
    /\ UNCHANGED <<env, now, ticks, ciphers, count_result, count, result, failed,
                   removed, lastDone, softSince>>

\* A failed count query taken for a count of zero.
CountFailSwallowed(p) ==
    /\ pc[p] = "count"
    /\ Request(p, "count")
    /\ failed' = [failed EXCEPT ![p] = "count"]
    /\ Finish(p, Ok(0))
    /\ UNCHANGED <<env, now, ticks, ciphers, locals, removed, atStart, pred>>

\* Lines 52-58: the count query fails.
CountFail(p) ==
    /\ pc[p] = "count"
    /\ Fails(p, "count")
    /\ UNCHANGED <<env, now, ticks, ciphers, locals, removed, atStart, pred>>

\* Lines 52-77 once the count query has answered cr: the count is taken and,
\* when it is zero, the invocation returns it.
Counted(p, cr) ==
    /\ Request(p, "count")
    /\ count_result' = [count_result EXCEPT ![p] = cr]
    /\ count' = [count EXCEPT ![p] = CountOf(cr)]
    /\ IF DeleteIssued(CountOf(cr))
       THEN /\ pc' = [pc EXCEPT ![p] = "delete"]
            /\ UNCHANGED <<result, lastDone, softSince>>
       ELSE Finish(p, Ok(CountOf(cr)))
    /\ UNCHANGED <<env, now, ticks, ciphers, purge_days, cutoff, cutoff_str, failed,
                   removed, atStart, pred>>

\* SELECT COUNT(*) answers with one row.
CountOk(p) ==
    /\ pc[p] = "count"
    /\ Counted(p, Row(Cardinality(Selected(ciphers, cutoff_str[p]))))

\* .first() finds no row.
CountNoRow(p) ==
    /\ pc[p] = "count"
    /\ Counted(p, NoRow)

\* Lines 64-70: the delete statement fails; a failed statement removes no row.
DeleteFail(p) ==
    /\ pc[p] = "delete"
    /\ Fails(p, "delete")
    /\ UNCHANGED <<env, now, ticks, ciphers, locals, removed, atStart, pred>>

\* A delete statement that is prepared and never run.
DeleteNotRun(p) ==
    /\ pc[p] = "delete"
    /\ Request(p, "delete")
    /\ Finish(p, Ok(count[p]))
    /\ UNCHANGED <<env, now, ticks, ciphers, locals, failed, removed, atStart, pred>>

\* Lines 64-77: the delete statement runs and the invocation returns the count.
DeleteOk(p) ==
    /\ pc[p] = "delete"
    /\ Request(p, "delete")
    /\ ciphers' = [i \in Ids |->
                     IF i \in Selected(ciphers, cutoff_str[p]) THEN Absent ELSE ciphers[i]]
    /\ removed' = [removed EXCEPT ![p] =
                     {<<i, ciphers[i]>> : i \in Selected(ciphers, cutoff_str[p])}]
    /\ Finish(p, Ok(count[p]))
    /\ UNCHANGED <<env, now, ticks, locals, failed, atStart, pred>>

(***************************************************************************)
(* The environment of the handler.                                         *)
(***************************************************************************)
\* A writer soft-deletes the active row i: deleted_at becomes the current time.
SoftDelete(i) ==
    /\ ciphers[i] = NULL
    /\ ciphers' = [ciphers EXCEPT ![i] = StoredFormat(now)]
    /\ softSince' = TRUE
    /\ pred' = [q \in Invs |-> IF Running(q) THEN 0 ELSE pred[q]]
    /\ UNCHANGED <<env, now, ticks, pc, locals, result, failed, requests, removed,
                   atStart, lastDone>>

\* A millisecond passes.
Tick ==
    /\ ticks < MaxTicks
    /\ now' = Advance(now)
    /\ ticks' = ticks + 1
    /\ UNCHANGED <<env, ciphers, pc, locals, result, failed, requests, removed,
                   atStart, lastDone, softSince, pred>>

Next ==
    \/ \E p \in Invs : Disabled(p)
    \/ \E p \in Invs : D1Fail(p)
    \/ \E p \in Invs : CutoffPanic(p)
    \/ \E p \in Invs : Begin(p)
    \/ \E p \in Invs : CountFail(p)
    \/ \E p \in Invs : CountOk(p)
    \/ \E p \in Invs : DeleteFail(p)
    \/ \E p \in Invs : DeleteOk(p)
    \/ \E i \in Ids : SoftDelete(i)
    \/ Tick

Spec == Init /\ [][Next]_vars

\* The same system over a store whose count query may also answer with no row.
NextNoRow == Next \/ \E p \in Invs : CountNoRow(p)

SpecNoRow == Init /\ [][NextNoRow]_vars

\* Reading the configuration: every value of the variable, and the steps of
\* an invocation up to its first request.
InitConfig == InitWith(ConfigValues, {[i \in Ids |-> NULL]})

NextConfig ==
    \/ \E p \in Invs : Disabled(p)
    \/ \E p \in Invs : D1Fail(p)
    \/ \E p \in Invs : CutoffPanic(p)
    \/ \E p \in Invs : Begin(p)

SpecConfig == InitConfig /\ [][NextConfig]_vars

(***************************************************************************)
(* Properties.                                                             *)
(***************************************************************************)
\* The instant a stored deleted_at text YYYY-MM-DDTHH:MM:SS.sssZ denotes.
Num(d, a, b) == DigitsValue(SubSeq(d, a, b), 0)

Instant(d) ==
    <<DaysFromCivil(Num(d, 1, 4), Num(d, 6, 7), Num(d, 9, 10)),
      Num(d, 12, 13) * 3600000 + Num(d, 15, 16) * 60000 + Num(d, 18, 19) * 1000
        + Num(d, 21, 23)>>

\* Chronological order of instants.
Before(a, b) == a[1] < b[1] \/ (a[1] = b[1] /\ a[2] < b[2])

SoftDeleted(d) == d # Absent /\ d # NULL

\* The invocation p has returned success from a purge that was not disabled.
Purged(p) == pc[p] = "done" /\ IsOk(result[p]) /\ purge_days[p] > 0

\* The row soft-deleted a days before Now0.
RowAged(a) == StoredFormat(<<Now0[1] - a, Now0[2]>>)

\* C1: Monotonic safety.  A row leaves the table only in the delete step of an
\* invocation with retention_days > 0, and only when its deleted_at is not null
\* and strictly earlier than that invocation's cutoff; every row an invocation
\* has removed is such a row.
C1_OnlyExpiredRowsRemoved ==
    /\ [](\A p \in Invs : \A r \in removed[p] :
            /\ purge_days[p] > 0
            /\ r[2] # NULL
            /\ Before(Instant(r[2]), cutoff[p]))
    /\ [][\A i \in Ids :
            (ciphers[i] # Absent /\ ciphers'[i] = Absent) =>
                /\ ciphers[i] # NULL
                /\ \E p \in Invs :
                      /\ pc[p] = "delete" /\ pc'[p] = "done"
                      /\ <<i, ciphers[i]>> \in removed'[p]
                      /\ Before(Instant(ciphers[i]), cutoff[p])]_vars

\* C1: an invocation removed a row that an earlier invocation, whose cutoff was
\* the very instant of the row's deletion, had counted out and left in place.
C1_Witness ==
    \E p, q \in Invs : \E r \in removed[p] :
        /\ Purged(q) /\ removed[q] = {} /\ count[q] = 0
        /\ cutoff[q] = Instant(r[2])

\* C2: Disabled switch.  An invocation that reads retention_days <= 0 makes no
\* request to the store (no handle, no count, no delete), returns Ok(0), and
\* the step it takes leaves the table as it was.
C2_DisabledIsNoOp ==
    /\ [](\A p \in Invs :
            (pc[p] # "idle" /\ purge_days[p] <= 0) =>
                /\ pc[p] = "done"
                /\ result[p] = Ok(0)
                /\ requests[p] = <<>>
                /\ removed[p] = {})
    /\ [][\A p \in Invs :
            (pc[p] = "idle" /\ pc'[p] # "idle" /\ purge_days'[p] <= 0) =>
                ciphers' = ciphers]_vars

\* C2: a disabled invocation has returned while a row deleted 45 days ago is
\* in the table.
C2_Witness ==
    \E p \in Invs : \E i \in Ids :
        /\ pc[p] = "done" /\ purge_days[p] <= 0
        /\ ciphers[i] = RowAged(45)

Successive(p) ==
    /\ pc[p] = "done"
    /\ pred[p] # 0
    /\ IsOk(result[p])
    /\ IsOk(result[pred[p]])
    /\ purge_days[p] > 0
    /\ purge_days[pred[p]] = purge_days[p]

\* C4 as stated: the second of two successive runs returns 0 and removes
\* nothing, whether or not the clock advanced between them.
C4_Original ==
    \A p \in Invs : Successive(p) => result[p] = Ok(0) /\ removed[p] = {}

\* C4 amended: the second of two successive runs removes only rows deleted at
\* or after the first run's cutoff and before its own, and returns their
\* number; when the two cutoffs are the same it returns 0 and removes nothing.
C4_Amended ==
    \A p \in Invs :
        Successive(p) =>
            /\ \A r \in removed[p] :
                  /\ ~Before(Instant(r[2]), cutoff[pred[p]])
                  /\ Before(Instant(r[2]), cutoff[p])
            /\ result[p] = Ok(Cardinality(removed[p]))
            /\ cutoff[p] = cutoff[pred[p]] => result[p] = Ok(0) /\ removed[p] = {}

\* C4: a run that removed a row was directly followed by a run with the same
\* cutoff.
C4_Witness ==
    \E p \in Invs :
        /\ Successive(p)
        /\ removed[pred[p]] # {}
        /\ cutoff[p] = cutoff[pred[p]]

\* C5: the value an invocation returns on success is the number of rows its
\* delete statement removed.
C5_ReturnsRowsRemoved ==
    \A p \in Invs :
        (pc[p] = "done" /\ IsOk(result[p])) => result[p] = Ok(Cardinality(removed[p]))

\* C6: Concurrent invocation is safe.  Of two invocations, whatever the one
\* with the same or the earlier cutoff removed satisfies the other's delete
\* predicate, and no row either of them removed was deleted at or after the
\* later cutoff.
C6_EarlierCutoffRemovesSubset ==
    \A p, q \in Invs :
        (p # q /\ cutoff[p] # Unset /\ cutoff[q] # Unset /\ ~Before(cutoff[q], cutoff[p])) =>
            /\ \A r \in removed[p] : Matches(r[2], cutoff_str[q])
            /\ \A r \in removed[p] \cup removed[q] : Before(Instant(r[2]), cutoff[q])

\* C6: two overlapping invocations counted the same row; the one with the
\* earlier cutoff removed it and the other removed nothing.
C6_Witness ==
    \E p, q \in Invs :
        /\ cutoff[p] # Unset /\ cutoff[q] # Unset
        /\ Before(cutoff[p], cutoff[q])
        /\ removed[p] # {}
        /\ pc[q] = "done" /\ count[q] > 0 /\ removed[q] = {}
        /\ requests[q] = <<"d1", "count", "delete">>

\* C7: Error handling.  When a request fails the invocation returns the error
\* and stops: the failed request is its last one and was made once; when the
\* handle or the count failed no delete was issued, the invocation removed
\* nothing and the failing step left the table as it was.
C7_FailureReturnsError ==
    /\ [](\A p \in Invs :
            failed[p] # "" =>
                /\ pc[p] = "done"
                /\ result[p] = Err
                /\ failed[p] = "d1" => requests[p] = <<"d1">>
                /\ failed[p] = "count" => requests[p] = <<"d1", "count">>
                /\ failed[p] = "delete" => requests[p] = <<"d1", "count", "delete">>
                /\ failed[p] \in {"d1", "count"} => removed[p] = {})
    /\ [][\A p \in Invs :
            (failed[p] = "" /\ failed'[p] \in {"d1", "count"}) => ciphers' = ciphers]_vars

\* C7: the count query of an invocation failed while a row it would have
\* deleted is in the table.
C7_Witness ==
    \E p \in Invs :
        /\ failed[p] = "count"
        /\ atStart[p] # {}
        /\ \A i \in atStart[p] : ciphers[i] # Absent

\* C8: Count-gated delete.  An invocation's requests are a prefix of handle,
\* count, delete; a delete is issued only after a count that answered a row
\* with a nonzero count; a count of zero, or no row, makes the invocation
\* return Ok(0) with no delete.
C8_CountGatesDelete ==
    \A p \in Invs :
        /\ requests[p] \in {<<>>, <<"d1">>, <<"d1", "count">>, <<"d1", "count", "delete">>}
        /\ (pc[p] = "delete" \/ Len(requests[p]) = 3) =>
              /\ count_result[p] # Unset
              /\ count_result[p] # NoRow
              /\ count_result[p][2] > 0
        /\ (count_result[p] = NoRow \/ count_result[p] = Row(0)) =>
              /\ pc[p] = "done"
              /\ result[p] = Ok(0)
              /\ requests[p] = <<"d1", "count">>

\* C8: one invocation deleted after a nonzero count and another returned 0
\* after a count query that found no row.
C8_Witness ==
    \E p, q \in Invs :
        /\ requests[p] = <<"d1", "count", "delete">> /\ removed[p] # {}
        /\ count_result[q] = NoRow /\ result[q] = Ok(0)

\* The text after an optional sign.
Body(e) == IF e # <<>> /\ Head(e) \in {"+", "-"} THEN Tail(e) ELSE e

\* e is written as a decimal integer that fits in 64 bits (every integer of
\* at most 18 digits does, none of 20 or more does).
IsIntegerText(e) ==
    /\ e # Missing
    /\ Body(e) # <<>>
    /\ \A k \in 1..Len(Body(e)) : IsDigit(Body(e)[k])
    /\ Len(Body(e)) <= 18

RECURSIVE Pow10(_)
Pow10(k) == IF k = 0 THEN 1 ELSE 10 * Pow10(k - 1)

RECURSIVE PositionalSum(_, _)
PositionalSum(b, k) ==
    IF k > Len(b) THEN 0
    ELSE DigitVal(b[k]) * Pow10(Len(b) - k) + PositionalSum(b, k + 1)

IntegerOf(e) ==
    IF Head(e) = "-" THEN 0 - PositionalSum(Body(e), 1) ELSE PositionalSum(Body(e), 1)

\* C9: Configuration fallback.  An invocation reads the integer the variable
\* is written as, and 30 when the variable is missing or is no integer; with
\* 30 the purge is enabled: the invocation goes on to acquire the handle.
C9_ConfigurationFallback ==
    \A p \in Invs :
        pc[p] # "idle" =>
            /\ IsIntegerText(env) => purge_days[p] = IntegerOf(env)
            /\ ~IsIntegerText(env) => purge_days[p] = 30 /\ requests[p] # <<>>

\* C9: an invocation under the value "3a" computed a cutoff 30 days back.
C9_Witness ==
    \E p \in Invs :
        /\ env = <<"3", "a">>
        /\ pc[p] = "count"
        /\ purge_days[p] = 30
        /\ cutoff[p] = <<Now0[1] - 30, Now0[2]>>

\* The clock after k ticks.
RECURSIVE NowAfter(_)
NowAfter(k) == IF k = 0 THEN Now0 ELSE Advance(NowAfter(k - 1))

\* C10: Cutoff computation.  Every invocation with retention_days > 0 that
\* acquired the handle computed cutoff = now - retention_days days, uses the
\* text of that cutoff as the parameter of its statements, and did not abort.
C10_CutoffForEveryPositiveRetention ==
    \A p \in Invs :
        (pc[p] # "idle" /\ purge_days[p] > 0 /\ failed[p] # "d1") =>
            /\ result[p] # Panicked
            /\ cutoff[p] # Unset
            /\ \E k \in 0..ticks :
                  cutoff[p] = <<NowAfter(k)[1] - purge_days[p], NowAfter(k)[2]>>
            /\ cutoff_str[p] = Format(cutoff[p])

====
